---- MODULE Spec2Model ----
(***************************************************************************)
(* A model of the lox front end: the scanner (src/src/scanner.rs), the     *)
(* recursive-descent expression parser (src/src/parser.rs) and the tree    *)
(* walking interpreter (src/src/interpreter.rs).                           *)
(*                                                                         *)
(* Bytes are one-character strings, byte slices are sequences of them.     *)
(* Rust indexes from 0 and TLA+ sequences from 1: the cursors start and    *)
(* current keep the Rust values, and At(s, i) reads s[i] of the Rust code. *)
(* A Rust panic (a slice out of range, a failed assert_eq!, todo!() or     *)
(* unreachable!()) is the outcome "panic".                                 *)
(***************************************************************************)
EXTENDS Integers, Sequences, FiniteSets, TLC

VARIABLES
    source,    \* scanner: the input bytes (the argument of scan_tokens)
    start,     \* Scanner.start
    current,   \* Scanner.current
    line,      \* Scanner.line
    errors,    \* Scanner.errors
    tokens,    \* Scanner.tokens
    pc,        \* scanner: "idle", "scan" (in the main loop), "done", "panic"
    result,    \* what scan_tokens returned: <<"none">>, <<"Ok", tokens>>, <<"Err", errors>>
    ptokens,   \* parser: Parser.tokens, the token types handed to Parser::new
    parseOut,  \* outcome of the public parse(): "none", "ok", "panic"
    exprOut,   \* outcome of Parser::expression: <<"none">>, <<"ok", tree, current>>,
               \* <<"err">> (ParseError), <<"panic">>
    value,     \* outcome of interpret: <<"none">>, <<"ok", v>>, <<"err">> (Error::Type),
               \* <<"panic">>
    ppc        \* parser/interpreter: "idle", "start", "parsed", "done"

vars == <<source, start, current, line, errors, tokens, pc, result,
          ptokens, parseOut, exprOut, value, ppc>>

scanVars == <<source, start, current, line, errors, tokens, pc, result>>
parseVars == <<ptokens, parseOut, exprOut, value, ppc>>

(***************************************************************************)
(* Bounds of the model.                                                    *)
(***************************************************************************)
\* longest scanner input, in bytes
MaxLen == 4
\* longest enumerated token stream, the closing EndOfFile not counted
MaxTokens == 4
\* most binary operators in an enumerated operator chain
MaxOps == 2

(***************************************************************************)
(* Generic helpers.                                                        *)
(***************************************************************************)
\* s[i] of the Rust code (0-based)
At(s, i) == s[i + 1]

\* s.get(i): <<>> for None, <<b>> for Some(b)
Get(s, i) == IF i >= 0 /\ i < Len(s) THEN <<s[i + 1]>> ELSE <<>>

\* &s[a..b] of the Rust code; the caller checks a <= b <= Len(s)
Slice(s, a, b) == [k \in 1..(b - a) |-> s[a + k]]

\* all sequences over S of length 0..n
RECURSIVE SeqsUpTo(_, _)
SeqsUpTo(S, n) ==
    IF n = 0 THEN {<<>>}
    ELSE LET shorter == SeqsUpTo(S, n - 1)
         IN  shorter \cup {Append(s, x) : s \in {t \in shorter : Len(t) = n - 1}, x \in S}

RECURSIVE Gcd(_, _)
Gcd(a, b) == IF b = 0 THEN a ELSE Gcd(b, a % b)

Abs(x) == IF x < 0 THEN -x ELSE x

RECURSIVE Pow10(_)
Pow10(n) == IF n = 0 THEN 1 ELSE 10 * Pow10(n - 1)

(***************************************************************************)
(* f64.  A number is <<class, n, d>>: class "fin" is the rational n/d in   *)
(* lowest terms with d > 0 (positive zero is <<"fin", 0, 1>>); the other   *)
(* classes are IEEE-754's negative zero, the two infinities and NaN.       *)
(* Arithmetic is exact: rounding and overflow are not modelled.            *)
(***************************************************************************)
Fin(n, d) ==
    LET g == Gcd(Abs(n), d)
    IN  IF n = 0 THEN <<"fin", 0, 1>> ELSE <<"fin", n \div g, d \div g>>

Num(n) == Fin(n, 1)
NZero == <<"nzero", 0, 1>>
PInf == <<"pinf", 0, 1>>
NInf == <<"ninf", 0, 1>>
NaN == <<"nan", 0, 1>>

(***************************************************************************)
(* Scanner: src/src/scanner.rs                                             *)
(***************************************************************************)
Digits == {"0", "1", "2", "3", "4", "5", "6", "7", "8", "9"}

Letters ==
    {"a", "b", "c", "d", "e", "f", "g", "h", "i", "j", "k", "l", "m",
     "n", "o", "p", "q", "r", "s", "t", "u", "v", "w", "x", "y", "z",
     "A", "B", "C", "D", "E", "F", "G", "H", "I", "J", "K", "L", "M",
     "N", "O", "P", "Q", "R", "S", "T", "U", "V", "W", "X", "Y", "Z"}

\* u8::is_ascii_digit
IsAsciiDigit(b) == b \in Digits

\* u8::is_ascii_alphabetic
IsAsciiAlphabetic(b) == b \in Letters

\* u8::is_ascii_alphanumeric
IsAsciiAlphanumeric(b) == b \in Letters \cup Digits

\* the bytes below 0x80 the model knows; every other byte is not ASCII
AsciiBytes ==
    Letters \cup Digits \cup
    {"(", ")", "{", "}", ",", ".", "-", "+", ";", "*", "!", "=", "<", ">",
     "/", "\"", " ", "\r", "\t", "\n", "_", "@", "#", "$"}

\* str::from_utf8(bytes).is_ok(): a sequence of ASCII bytes is valid UTF-8
IsUtf8(bytes) == \A k \in 1..Len(bytes) : bytes[k] \in AsciiBytes

\* the single-byte arms of scan_tokens: byte -> token type
SingleTokens ==
    {<<"(", "LeftBracket">>, <<")", "RightBracket">>, <<"{", "LeftBrace">>,
     <<"}", "RightBrace">>, <<",", "Comma">>, <<".", "Dot">>, <<"-", "Minus">>,
     <<"+", "Plus">>, <<";", "Semicolon">>, <<"*", "Star">>}

\* the arms of scan_tokens that look for a following '=':
\* byte -> <<token with '=', token without>>
OperatorTokens ==
    {<<"!", "NotEqual", "Bang">>, <<"=", "Equal", "Assign">>,
     <<"<", "LessThanOrEqual", "LessThan">>,
     <<">", "GreaterThanOrEqual", "GreaterThan">>}

KEYWORDS ==
    {<<<<"a", "n", "d">>, "And">>,
     <<<<"c", "l", "a", "s", "s">>, "Class">>,
     <<<<"e", "l", "s", "e">>, "Else">>,
     <<<<"f", "a", "l", "s", "e">>, "False">>,
     <<<<"f", "o", "r">>, "For">>,
     <<<<"f", "u", "n">>, "Fun">>,
     <<<<"i", "f">>, "If">>,
     <<<<"n", "i", "l">>, "Nil">>,
     <<<<"o", "r">>, "Or">>,
     <<<<"p", "r", "i", "n", "t">>, "Print">>,
     <<<<"r", "e", "t", "u", "r", "n">>, "Return">>,
     <<<<"s", "u", "p", "e", "r">>, "Super">>,
     <<<<"t", "h", "i", "s">>, "This">>,
     <<<<"t", "r", "u", "e">>, "True">>,
     <<<<"v", "a", "r">>, "Var">>,
     <<<<"w", "h", "i", "l", "e">>, "While">>}

\* A token type is <<name>> or, with a payload, <<name, payload>>.
\* A token is [type |-> token type, line |-> line].
Token(type, ln) == [type |-> type, line |-> ln]

\* Scanner::peek
peek(src, cur) == Get(src, cur + 1)

\* Scanner::peek_next
peek_next(src, cur) == Get(src, cur + 2)

\* Scanner::match: <<matched, current afterwards>>
match(src, cur, b) ==
    IF peek(src, cur) = <<b>> THEN <<TRUE, cur + 1>> ELSE <<FALSE, cur>>

\* str::parse::<f64> of ASCII digits with at most one '.' between digits
RECURSIVE DigitsValue(_)
DigitsValue(text) ==
    IF text = <<>> THEN 0
    ELSE 10 * DigitsValue(SubSeq(text, 1, Len(text) - 1))
         + (CHOOSE v \in 0..9 :
               <<"0", "1", "2", "3", "4", "5", "6", "7", "8", "9">>[v + 1] = text[Len(text)])

ParseF64(text) ==
    LET dots == {k \in 1..Len(text) : text[k] = "."}
        all == SelectSeq(text, LAMBDA b : b # ".")
        frac == IF dots = {} THEN 0 ELSE Len(text) - (CHOOSE k \in dots : TRUE)
    IN  Fin(DigitsValue(all), Pow10(frac))

(***************************************************************************)
(* The Scanner struct as a record [start, current, line, errors, tokens,   *)
(* panicked]; the helpers below take it and return it updated, as the Rust *)
(* methods update self.  An error is <<"UnexpectedCharacter", byte, line>>,*)
(* <<"UnterimatedString", line>> (the spelling of the source) or           *)
(* <<"Utf8">>.                                                             *)
(***************************************************************************)
Self == [start |-> start, current |-> current, line |-> line,
         errors |-> errors, tokens |-> tokens, panicked |-> FALSE]

\* Scanner::advance
advance(s) == [s EXCEPT !.current = s.current + 1, !.start = s.current + 1]

\* Scanner::add_token
add_token(s, type) ==
    advance([s EXCEPT !.tokens = Append(s.tokens, Token(type, s.line))])

\* the comment loop of the b'/' arm: current after it
RECURSIVE CommentLoop(_, _)
CommentLoop(src, cur) ==
    LET p == peek(src, cur)
    IN  IF p = <<>> \/ p = <<"\n">> THEN cur ELSE CommentLoop(src, cur + 1)

\* the loop of handle_identifier: current after it
RECURSIVE IdentifierLoop(_, _)
IdentifierLoop(src, cur) ==
    LET p == peek(src, cur)
    IN  IF p = <<>> THEN cur
        ELSE IF ~IsAsciiAlphanumeric(p[1]) /\ p[1] # "_" THEN cur
        ELSE IdentifierLoop(src, cur + 1)

\* Scanner::handle_identifier
handle_identifier(src, s) ==
    LET cur == IdentifierLoop(src, s.current)
        identifier == Slice(src, s.start, cur + 1)
        hit == {kw \in KEYWORDS : kw[1] = identifier}
        s1 == [s EXCEPT !.current = cur]
    IN  IF hit # {} THEN add_token(s1, <<(CHOOSE kw \in hit : TRUE)[2]>>)
        ELSE add_token(s1, <<"Identifier", identifier>>)

\* the two digit loops of handle_number: current after one
RECURSIVE DigitLoop(_, _)
DigitLoop(src, cur) ==
    LET p == peek(src, cur)
    IN  IF p # <<>> /\ IsAsciiDigit(p[1]) THEN DigitLoop(src, cur + 1) ELSE cur

\* Scanner::handle_number
handle_number(src, s) ==
    LET c1 == DigitLoop(src, s.current)
        pn == peek_next(src, c1)
        c2 == IF peek(src, c1) = <<".">> /\ pn # <<>> /\ IsAsciiDigit(pn[1])
              THEN c1 + 1 ELSE c1
        c3 == DigitLoop(src, c2)
        number == Slice(src, s.start, c3 + 1)
        s1 == [s EXCEPT !.current = c3]
    IN  IF IsUtf8(number) THEN add_token(s1, <<"Number", ParseF64(number)>>)
        ELSE [s1 EXCEPT !.errors = Append(s1.errors, <<"Utf8">>)]

\* the loop of handle_string: <<current, line>> after it
RECURSIVE StringLoop(_, _, _)
StringLoop(src, cur, ln) ==
    LET p == peek(src, cur)
    IN  IF p = <<>> THEN <<cur, ln>>
        ELSE LET ln1 == IF p[1] = "\n" THEN ln + 1 ELSE ln
             IN  IF p[1] = "\"" THEN <<cur + 1, ln1>>
                 ELSE StringLoop(src, cur + 1, ln1)

\* line 251-254 of handle_string: whether UnterimatedString is pushed
StringUnterminated(src, cur) == peek(src, cur) = <<>>

\* line 259 of handle_string: the advance() that ends it
StringEnd(s) == advance(s)

\* Scanner::handle_string
handle_string(src, s) ==
    LET after == StringLoop(src, s.current, s.line)
        s1 == [s EXCEPT !.current = after[1], !.line = after[2]]
        s2 == IF StringUnterminated(src, s1.current)
              THEN [s1 EXCEPT !.errors = Append(s1.errors, <<"UnterimatedString", s1.line>>)]
              ELSE s1
    IN  IF s2.start + 1 > s2.current
        THEN [s2 EXCEPT !.panicked = TRUE]  \* &source[start + 1..current]: start > end
        ELSE LET str == Slice(src, s2.start + 1, s2.current)
                 s3 == IF IsUtf8(str) THEN add_token(s2, <<"String", str>>)
                       ELSE [s2 EXCEPT !.errors = Append(s2.errors, <<"Utf8">>)]
             IN  StringEnd(s3)

\* the state after one iteration of the main loop that ended in s
Continue(s) ==
    /\ start' = s.start
    /\ current' = s.current
    /\ line' = s.line
    /\ errors' = s.errors
    /\ tokens' = s.tokens
    /\ pc' = IF s.panicked THEN "panic" ELSE "scan"
    /\ UNCHANGED <<source, result>>
    /\ UNCHANGED parseVars

\* the loop condition of scan_tokens holds and the byte at current is b
InLoop == pc = "scan" /\ current < Len(source)
Byte == At(source, current)

\* the arms b'(' ... b'*'
ScanSingle ==
    /\ InLoop
    /\ \E st \in SingleTokens : st[1] = Byte /\ Continue(add_token(Self, <<st[2]>>))

\* the arms b'!', b'=', b'<', b'>'
ScanOperator ==
    /\ InLoop
    /\ \E ot \in OperatorTokens :
          /\ ot[1] = Byte
          /\ LET m == match(source, current, "=")
                 s1 == [Self EXCEPT !.current = m[2]]
             IN  Continue(add_token(s1, IF m[1] THEN <<ot[2]>> ELSE <<ot[3]>>))

\* the arm b'/'
ScanSlash ==
    /\ InLoop
    /\ Byte = "/"
    /\ LET m == match(source, current, "/")
       IN  IF m[1]
           THEN Continue(advance([Self EXCEPT !.current = CommentLoop(source, m[2])]))
           ELSE Continue(add_token(Self, <<"Slash">>))

\* the arm b'"'
ScanString ==
    /\ InLoop
    /\ Byte = "\""
    /\ Continue(handle_string(source, Self))

\* the arm digit if digit.is_ascii_digit()
ScanNumber ==
    /\ InLoop
    /\ IsAsciiDigit(Byte)
    /\ Continue(handle_number(source, Self))

\* the arm letter if letter.is_ascii_alphabetic() || letter == b'_'
ScanIdentifier ==
    /\ InLoop
    /\ IsAsciiAlphabetic(Byte) \/ Byte = "_"
    /\ Continue(handle_identifier(source, Self))

\* the arm b' ' | b'\r' | b'\t'
ScanWhitespace ==
    /\ InLoop
    /\ Byte \in {" ", "\r", "\t"}
    /\ Continue(advance(Self))

\* the arm b'\n'
ScanNewline ==
    /\ InLoop
    /\ Byte = "\n"
    /\ Continue(advance([Self EXCEPT !.line = line + 1]))

\* the bytes the arms before the last one take
Expected ==
    {st[1] : st \in SingleTokens} \cup {ot[1] : ot \in OperatorTokens}
    \cup {"/", "\"", " ", "\r", "\t", "\n", "_"} \cup Digits \cup Letters

\* the arm unexpected
ScanUnexpected ==
    /\ InLoop
    /\ Byte \notin Expected
    /\ Continue(advance([Self EXCEPT
           !.errors = Append(errors, <<"UnexpectedCharacter", Byte, line>>)]))

\* an end of scan_tokens that returns without pushing the EndOfFile token
ScanFinishNoMarker ==
    /\ pc = "scan"
    /\ ~(current < Len(source))
    /\ result' = IF errors = <<>> THEN <<"Ok", tokens>> ELSE <<"Err", errors>>
    /\ pc' = "done"
    /\ UNCHANGED <<source, start, current, line, errors, tokens>>
    /\ UNCHANGED parseVars

\* the end of scan_tokens, after the loop
ScanFinish ==
    /\ pc = "scan"
    /\ ~(current < Len(source))
    /\ tokens' = Append(tokens, Token(<<"EndOfFile">>, line))
    /\ result' = IF errors = <<>> THEN <<"Ok", tokens'>> ELSE <<"Err", errors>>
    /\ pc' = "done"
    /\ UNCHANGED <<source, start, current, line, errors>>
    /\ UNCHANGED parseVars

\* the bytes scanner inputs are drawn from: one or two of each kind the arms tell apart
ScanAlphabet == {"\"", "\n", "@", "/", "=", "!", "1", ".", "o", "r", " "}

ParseIdle ==
    /\ ptokens = <<>>
    /\ parseOut = "none"
    /\ exprOut = <<"none">>
    /\ value = <<"none">>
    /\ ppc = "idle"

\* the inputs of the specification's examples and of the tests of scanner.rs
\* that the alphabet above does not spell
ScanExamples ==
    {<<"=", "=", "=">>, <<"<", "=", ">", "=">>, <<"<", ">", "<", "=", "=">>,
     <<"!", "=", "=", "!", "<">>, <<"1", "2", "3", ".">>, <<"1", ".", "2", ".", "3">>,
     <<"1", "2", ".", "5", "0">>, <<"0", "7", "+", "3">>,
     <<"o", "r", "c", "h", "i", "d">>, <<"n", "i", "l", "_">>, <<"n", "i", "l">>,
     <<"_", "o", "r">>, <<"o", "r", "1">>, <<"f", "o", "r", " ", "x", "2">>,
     <<"v", "a", "r", " ", "a", "=", "1", ";">>,
     <<"/", "/", " ", "@", "\"", "\n", "*">>, <<"1", "/", "2", "/", "/", "3">>,
     <<"\"", "a", "\"", "+", "1">>, <<"\"", "a", "\"", " ", "+", "1">>,
     <<"(", "\"", "o", "\"", ")">>, <<"\"", "o", "\"", "\n", "r">>}

\* Scanner::new and the call scan_tokens(content)
ScanInit ==
    /\ source \in SeqsUpTo(ScanAlphabet, MaxLen) \cup ScanExamples
    /\ start = 0
    /\ current = 0
    /\ line = 1
    /\ errors = <<>>
    /\ tokens = <<>>
    /\ result = <<"none">>
    /\ pc = "scan"
    /\ ParseIdle

ScanNext ==
    \/ ScanSingle
    \/ ScanOperator
    \/ ScanSlash
    \/ ScanString
    \/ ScanNumber
    \/ ScanIdentifier
    \/ ScanWhitespace
    \/ ScanNewline
    \/ ScanUnexpected
    \/ ScanFinish

ScanSpec == ScanInit /\ [][ScanNext]_vars

(***************************************************************************)
(* Parser: src/src/parser.rs.  Parser.tokens is modelled as the sequence   *)
(* of token types (the parser never reads Token.line).  A tree is          *)
(* <<"Literal", value>>, <<"Grouping", expression>>,                       *)
(* <<"Unary", operator, right>> or <<"Binary", left, operator, right>>.    *)
(* A production returns <<"ok", tree, current>>, <<"err">> for             *)
(* Err(ParseError), or <<"panic">>.                                        *)
(***************************************************************************)
\* the token lists handed to match by each production
EqualityOps == {"NotEqual", "Equal"}
ComparisonOps == {"GreaterThan", "GreaterThanOrEqual", "LessThan", "LessThanOrEqual"}
TermOps == {"Minus", "Plus"}
\* a factor level that also takes the operators of the term level
FactorOpsWithTerm == {"Slash", "Star", "Minus", "Plus"}
FactorOps == {"Slash", "Star"}
UnaryOps == {"NotEqual", "Equal"}

\* the token types primary turns into a Literal
LiteralTypes == {"Number", "String", "True", "False", "Nil"}

\* Parser::match: <<"yes", current + 1>>, <<"no", current>>, or <<"panic">>
\* when tokens[current] is out of range
ParserMatch(toks, cur, ops) ==
    IF cur >= Len(toks) THEN <<"panic">>
    ELSE IF At(toks, cur)[1] \in ops THEN <<"yes", cur + 1>>
    ELSE <<"no", cur>>

\* Each production hands the result of the production below it to a helper,
\* which looks at it once: the ? of the Rust code returns an Err (or a panic)
\* as it is, and an Ok result goes on.

\* Box::new(Expr::Binary { left: expr, operator, right }) after right?, where
\* right is the result of the production that parsed the right operand
BinaryOf(expr, operator, right) ==
    IF right[1] # "ok" THEN right
    ELSE <<"ok", <<"Binary", expr, operator, right[2]>>, right[3]>>

\* Box::new(Expr::Unary { operator, right }) after right?
UnaryOf(operator, right) ==
    IF right[1] # "ok" THEN right
    ELSE <<"ok", <<"Unary", operator, right[2]>>, right[3]>>

RECURSIVE expression(_, _)
RECURSIVE equality(_, _)
RECURSIVE EqualityLoop(_, _, _)
RECURSIVE EqualityFrom(_, _)
RECURSIVE comparison(_, _)
RECURSIVE ComparisonLoop(_, _, _)
RECURSIVE ComparisonFrom(_, _)
RECURSIVE term(_, _)
RECURSIVE TermLoop(_, _, _)
RECURSIVE TermFrom(_, _)
RECURSIVE factor(_, _)
RECURSIVE FactorLoop(_, _, _)
RECURSIVE FactorFrom(_, _)
RECURSIVE unary(_, _)
RECURSIVE primary(_, _)

\* the b'(' arm of primary after expression()?: e is what expression returned
Grouped(toks, e) ==
    IF e[1] # "ok" THEN e
    ELSE IF e[3] >= Len(toks) THEN <<"panic">>
    ELSE IF At(toks, e[3]) # <<"RightBracket">> THEN <<"panic">>  \* assert_eq!
    ELSE <<"ok", <<"Grouping", e[2]>>, e[3] + 1>>

\* Parser::primary
primary(toks, cur) ==
    IF cur >= Len(toks) THEN <<"panic">>  \* self.tokens[self.current]
    ELSE LET type == At(toks, cur)
         IN  IF type[1] \in LiteralTypes THEN <<"ok", <<"Literal", type>>, cur + 1>>
             ELSE IF type[1] = "LeftBracket" THEN Grouped(toks, expression(toks, cur + 1))
             ELSE <<"err">>

\* Parser::unary
unary(toks, cur) ==
    LET m == ParserMatch(toks, cur, UnaryOps)
    IN  IF m[1] = "panic" THEN <<"panic">>
        ELSE IF m[1] = "yes" THEN UnaryOf(At(toks, m[2] - 1), unary(toks, m[2]))
        ELSE primary(toks, cur)

\* Parser::factor from the while loop on: r is the expression parsed so far
FactorFrom(toks, r) == IF r[1] # "ok" THEN r ELSE FactorLoop(toks, r[2], r[3])

\* the while loop of Parser::factor, entered with expr and current
FactorLoop(toks, expr, cur) ==
    LET m == ParserMatch(toks, cur, FactorOps)
    IN  IF m[1] = "panic" THEN <<"panic">>
        ELSE IF m[1] = "no" THEN <<"ok", expr, cur>>
        ELSE FactorFrom(toks, BinaryOf(expr, At(toks, m[2] - 1), unary(toks, m[2])))

\* Parser::factor
factor(toks, cur) == FactorFrom(toks, unary(toks, cur))

\* a term loop that parses the rest of the chain as its right operand
TermLoopRight(toks, expr, cur) ==
    LET m == ParserMatch(toks, cur, TermOps)
    IN  IF m[1] = "panic" THEN <<"panic">>
        ELSE IF m[1] = "no" THEN <<"ok", expr, cur>>
        ELSE BinaryOf(expr, At(toks, m[2] - 1), term(toks, m[2]))

\* Parser::term from the while loop on
TermFrom(toks, r) == IF r[1] # "ok" THEN r ELSE TermLoop(toks, r[2], r[3])

\* the while loop of Parser::term
TermLoop(toks, expr, cur) ==
    LET m == ParserMatch(toks, cur, TermOps)
    IN  IF m[1] = "panic" THEN <<"panic">>
        ELSE IF m[1] = "no" THEN <<"ok", expr, cur>>
        ELSE TermFrom(toks, BinaryOf(expr, At(toks, m[2] - 1), factor(toks, m[2])))

\* Parser::term
term(toks, cur) == TermFrom(toks, factor(toks, cur))

\* Parser::comparison from the while loop on
ComparisonFrom(toks, r) == IF r[1] # "ok" THEN r ELSE ComparisonLoop(toks, r[2], r[3])

\* the while loop of Parser::comparison
ComparisonLoop(toks, expr, cur) ==
    LET m == ParserMatch(toks, cur, ComparisonOps)
    IN  IF m[1] = "panic" THEN <<"panic">>
        ELSE IF m[1] = "no" THEN <<"ok", expr, cur>>
        ELSE ComparisonFrom(toks, BinaryOf(expr, At(toks, m[2] - 1), term(toks, m[2])))

\* Parser::comparison
comparison(toks, cur) == ComparisonFrom(toks, term(toks, cur))

\* Parser::equality from the while loop on
EqualityFrom(toks, r) == IF r[1] # "ok" THEN r ELSE EqualityLoop(toks, r[2], r[3])

\* the while loop of Parser::equality
EqualityLoop(toks, expr, cur) ==
    LET m == ParserMatch(toks, cur, EqualityOps)
    IN  IF m[1] = "panic" THEN <<"panic">>
        ELSE IF m[1] = "no" THEN <<"ok", expr, cur>>
        ELSE EqualityFrom(toks, BinaryOf(expr, At(toks, m[2] - 1), comparison(toks, m[2])))

\* Parser::equality
equality(toks, cur) == EqualityFrom(toks, comparison(toks, cur))

\* Parser::expression
expression(toks, cur) == equality(toks, cur)

\* Parser::statement: todo!()
statement(toks, cur) == <<"panic">>

\* parse: Parser::new(tokens), then statement() while current < tokens.len();
\* "ok" for Ok(statements), "panic" for a panic
parse(toks) == IF 0 < Len(toks) THEN statement(toks, 0)[1] ELSE "ok"

(***************************************************************************)
(* f64 arithmetic on the numbers above, as IEEE-754 defines it for exact   *)
(* results.                                                                *)
(***************************************************************************)
FIsNaN(x) == x[1] = "nan"
FIsInf(x) == x[1] \in {"pinf", "ninf"}
FIsZero(x) == x[1] = "nzero" \/ (x[1] = "fin" /\ x[2] = 0)
FNegative(x) == x[1] \in {"nzero", "ninf"} \/ (x[1] = "fin" /\ x[2] < 0)
FZero(negative) == IF negative THEN NZero ELSE Num(0)
FInf(negative) == IF negative THEN NInf ELSE PInf

\* -x
FNeg(x) ==
    CASE x[1] = "nan" -> NaN
      [] x[1] = "pinf" -> NInf
      [] x[1] = "ninf" -> PInf
      [] x[1] = "nzero" -> Num(0)
      [] OTHER -> IF x[2] = 0 THEN NZero ELSE Fin(-x[2], x[3])

\* x + y
FAdd(x, y) ==
    IF FIsNaN(x) \/ FIsNaN(y) THEN NaN
    ELSE IF FIsInf(x) /\ FIsInf(y) THEN (IF x = y THEN x ELSE NaN)
    ELSE IF FIsInf(x) THEN x
    ELSE IF FIsInf(y) THEN y
    ELSE IF FIsZero(x) /\ FIsZero(y) THEN FZero(FNegative(x) /\ FNegative(y))
    ELSE Fin(x[2] * y[3] + y[2] * x[3], x[3] * y[3])

\* x - y
FSub(x, y) == FAdd(x, FNeg(y))

\* x * y
FMul(x, y) ==
    LET negative == FNegative(x) # FNegative(y)
    IN  IF FIsNaN(x) \/ FIsNaN(y) THEN NaN
        ELSE IF (FIsInf(x) /\ FIsZero(y)) \/ (FIsZero(x) /\ FIsInf(y)) THEN NaN
        ELSE IF FIsInf(x) \/ FIsInf(y) THEN FInf(negative)
        ELSE IF FIsZero(x) \/ FIsZero(y) THEN FZero(negative)
        ELSE Fin(x[2] * y[2], x[3] * y[3])

\* x / y
FDiv(x, y) ==
    LET negative == FNegative(x) # FNegative(y)
    IN  IF FIsNaN(x) \/ FIsNaN(y) THEN NaN
        ELSE IF (FIsInf(x) /\ FIsInf(y)) \/ (FIsZero(x) /\ FIsZero(y)) THEN NaN
        ELSE IF FIsInf(x) \/ FIsZero(y) THEN FInf(negative)
        ELSE IF FIsInf(y) \/ FIsZero(x) THEN FZero(negative)
        ELSE IF y[2] < 0 THEN Fin(-(x[2] * y[3]), x[3] * (-y[2]))
        ELSE Fin(x[2] * y[3], x[3] * y[2])

\* x < y
FLt(x, y) ==
    IF FIsNaN(x) \/ FIsNaN(y) THEN FALSE
    ELSE IF x[1] = "pinf" \/ y[1] = "ninf" THEN FALSE
    ELSE IF x[1] = "ninf" \/ y[1] = "pinf" THEN TRUE
    ELSE x[2] * y[3] < y[2] * x[3]

\* x == y
FEq(x, y) ==
    IF FIsNaN(x) \/ FIsNaN(y) THEN FALSE
    ELSE IF FIsZero(x) /\ FIsZero(y) THEN TRUE
    ELSE x = y

\* x <= y, x > y, x >= y
FLe(x, y) == FLt(x, y) \/ FEq(x, y)
FGt(x, y) == FLt(y, x)
FGe(x, y) == FLe(y, x)

(***************************************************************************)
(* Interpreter: src/src/interpreter.rs.  A Value is <<"Nil">>,             *)
(* <<"Bool", b>>, <<"Number", x>> or <<"String", text>>.  interpret        *)
(* returns <<"ok", value>>, <<"err">> for Err(Error::Type), or <<"panic">> *)
(* for an unreachable!() arm.                                              *)
(***************************************************************************)
\* a truthiness under which Number(0) and the empty String are false too
truthyZeroFalse(v) ==
    CASE v[1] = "Bool" -> v
      [] v[1] = "Nil" -> <<"Bool", FALSE>>
      [] v[1] = "Number" -> <<"Bool", ~FIsZero(v[2])>>
      [] OTHER -> <<"Bool", v[2] # <<>>>>

\* Value::truthy
truthy(v) ==
    CASE v[1] = "Bool" -> v
      [] v[1] = "Nil" -> <<"Bool", FALSE>>
      [] OTHER -> <<"Bool", TRUE>>

\* an equals that compares kind and payload as written, Numbers included
equalsStructural(a, b) == <<"Bool", a = b>>

\* Value::equals
equals(a, b) ==
    CASE a[1] = "Nil" /\ b[1] = "Nil" -> <<"Bool", TRUE>>
      [] a[1] = "Bool" /\ b[1] = "Bool" -> <<"Bool", a[2] = b[2]>>
      [] a[1] = "Number" /\ b[1] = "Number" -> <<"Bool", FEq(a[2], b[2])>>
      [] a[1] = "String" /\ b[1] = "String" -> <<"Bool", a[2] = b[2]>>
      [] OTHER -> <<"Bool", FALSE>>

\* the Literal arm of interpret
InterpretLiteral(tok) ==
    CASE tok[1] = "Number" -> <<"ok", <<"Number", tok[2]>>>>
      [] tok[1] = "String" -> <<"ok", <<"String", tok[2]>>>>
      [] tok[1] = "True" -> <<"ok", <<"Bool", TRUE>>>>
      [] tok[1] = "False" -> <<"ok", <<"Bool", FALSE>>>>
      [] tok[1] = "Nil" -> <<"ok", <<"Nil">>>>
      [] OTHER -> <<"panic">>

\* the Unary arm of interpret, the operand evaluated to right
InterpretUnary(operator, right) ==
    CASE operator[1] = "Minus" ->
           IF right[1] = "Number" THEN <<"ok", <<"Number", FNeg(right[2])>>>> ELSE <<"err">>
      [] operator[1] = "Bang" ->
           IF truthy(right)[1] = "Bool" THEN <<"ok", <<"Bool", ~truthy(right)[2]>>>>
           ELSE <<"err">>
      [] OTHER -> <<"panic">>

\* the arms of Binary that take two Numbers: the result on Numbers l and r
NumericResult(operator, l, r) ==
    CASE operator[1] = "Minus" -> <<"Number", FSub(l, r)>>
      [] operator[1] = "Slash" -> <<"Number", FDiv(l, r)>>
      [] operator[1] = "Star" -> <<"Number", FMul(l, r)>>
      [] operator[1] = "GreaterThan" -> <<"Bool", FGt(l, r)>>
      [] operator[1] = "GreaterThanOrEqual" -> <<"Bool", FGe(l, r)>>
      [] operator[1] = "LessThan" -> <<"Bool", FLt(l, r)>>
      [] operator[1] = "LessThanOrEqual" -> <<"Bool", FLe(l, r)>>

NumericOps ==
    {"Minus", "Slash", "Star", "GreaterThan", "GreaterThanOrEqual", "LessThan",
     "LessThanOrEqual"}

\* a Binary arm whose '+' takes any two operands, the sum when both are
\* Numbers and otherwise a String
InterpretBinaryCoercing(left, operator, right) ==
    CASE operator[1] \in NumericOps ->
           IF left[1] # "Number" THEN <<"err">>
           ELSE IF right[1] # "Number" THEN <<"err">>
           ELSE <<"ok", NumericResult(operator, left[2], right[2])>>
      [] operator[1] = "Plus" ->
           IF left[1] = "Number" /\ right[1] = "Number"
           THEN <<"ok", <<"Number", FAdd(left[2], right[2])>>>>
           ELSE IF left[1] = "String" /\ right[1] = "String"
           THEN <<"ok", <<"String", left[2] \o right[2]>>>>
           ELSE <<"ok", <<"String", <<>>>>>>
      [] operator[1] = "Equal" -> <<"ok", equals(left, right)>>
      [] operator[1] = "NotEqual" -> <<"ok", <<"Bool", ~equals(left, right)[2]>>>>
      [] OTHER -> <<"panic">>

\* the Binary arm of interpret, the operands evaluated to left and right
InterpretBinary(left, operator, right) ==
    CASE operator[1] \in NumericOps ->
           IF left[1] # "Number" THEN <<"err">>
           ELSE IF right[1] # "Number" THEN <<"err">>
           ELSE <<"ok", NumericResult(operator, left[2], right[2])>>
      [] operator[1] = "Plus" ->
           IF left[1] = "Number" /\ right[1] = "Number"
           THEN <<"ok", <<"Number", FAdd(left[2], right[2])>>>>
           ELSE IF left[1] = "String" /\ right[1] = "String"
           THEN <<"ok", <<"String", left[2] \o right[2]>>>>
           ELSE <<"err">>
      [] operator[1] = "Equal" -> <<"ok", equals(left, right)>>
      [] operator[1] = "NotEqual" ->
           IF equals(left, right)[1] = "Bool"
           THEN <<"ok", <<"Bool", ~equals(left, right)[2]>>>>
           ELSE <<"panic">>
      [] OTHER -> <<"panic">>

\* interpret
RECURSIVE interpret(_)
interpret(expr) ==
    CASE expr[1] = "Literal" -> InterpretLiteral(expr[2])
      [] expr[1] = "Grouping" -> interpret(expr[2])
      [] expr[1] = "Unary" ->
           LET right == interpret(expr[3])
           IN  IF right[1] # "ok" THEN right ELSE InterpretUnary(expr[2], right[2])
      [] expr[1] = "Binary" ->
           LET left == interpret(expr[2])
           IN  IF left[1] # "ok" THEN left
               ELSE LET right == interpret(expr[4])
                    IN  IF right[1] # "ok" THEN right
                        ELSE InterpretBinary(left[2], expr[3], right[2])
      [] OTHER -> <<"panic">>

(***************************************************************************)
(* The calls on a token stream: parse, Parser::expression, and interpret   *)
(* on the tree expression returned.                                        *)
(***************************************************************************)
\* parse(tokens)
CallParse ==
    /\ ppc = "start"
    /\ parseOut = "none"
    /\ parseOut' = parse(ptokens)
    /\ UNCHANGED <<ptokens, exprOut, value, ppc>>
    /\ UNCHANGED scanVars

\* Parser::new(tokens).expression()
CallExpression ==
    /\ ppc = "start"
    /\ exprOut' = expression(ptokens, 0)
    /\ ppc' = "parsed"
    /\ UNCHANGED <<ptokens, parseOut, value>>
    /\ UNCHANGED scanVars

\* interpret(&expr) on the tree expression returned
CallInterpret ==
    /\ ppc = "parsed"
    /\ exprOut[1] = "ok"
    /\ value' = interpret(exprOut[2])
    /\ ppc' = "done"
    /\ UNCHANGED <<ptokens, parseOut, exprOut>>
    /\ UNCHANGED scanVars

\* the token types enumerated streams are drawn from: a Number and a
\* non-Number literal, the brackets, the two prefix operators of the grammar
\* and one binary operator of each level
TokenAlphabet ==
    {<<"Number", Num(2)>>, <<"Nil">>, <<"LeftBracket">>, <<"RightBracket">>,
     <<"Bang">>, <<"Minus">>, <<"Star">>, <<"LessThan">>, <<"Equal">>}

BinaryOps == EqualityOps \cup ComparisonOps \cup TermOps \cup FactorOps

\* the operands of the operator chains, by position
ChainOperands == <<Num(8), Num(4), Num(2), Num(3), Num(5)>>

\* x1 op1 x2 ... opn x(n+1) for the operators ops
Chain(ops) ==
    [k \in 1..(2 * Len(ops) + 1) |->
        IF k % 2 = 1 THEN <<"Number", ChainOperands[(k + 1) \div 2]>>
        ELSE <<ops[k \div 2]>>]

ChainStreams == {Chain(ops) : ops \in SeqsUpTo(BinaryOps, MaxOps)}

Str(text) == <<"String", text>>
N(n) == <<"Number", Num(n)>>

\* the expressions of the specification's testable properties, as token streams
ExampleStreams ==
    {<<N(2), <<"Plus">>, N(3), <<"Star">>, N(4)>>,
     <<<<"LeftBracket">>, N(2), <<"Plus">>, N(3), <<"RightBracket">>, <<"Star">>, N(4)>>,
     <<N(8), <<"Minus">>, N(4), <<"Minus">>, N(2)>>,
     <<Str(<<"f", "o", "o">>), <<"Plus">>, Str(<<"b", "a", "r">>)>>,
     <<Str(<<"f", "o", "o">>), <<"Plus">>, N(1)>>,
     <<<<"Bang">>, <<"Nil">>>>,
     <<<<"Bang">>, N(0)>>,
     <<N(1), <<"Equal">>, Str(<<"1">>)>>,
     <<<<"Nil">>, <<"Equal">>, <<"Nil">>>>,
     <<<<"True">>, <<"NotEqual">>, <<"False">>>>,
     <<<<"LeftBracket">>, <<"LeftBracket">>, <<"LeftBracket">>, <<"LeftBracket">>, N(1),
       <<"RightBracket">>, <<"RightBracket">>, <<"RightBracket">>, <<"RightBracket">>>>}

ScanIdle ==
    /\ source = <<>>
    /\ start = 0
    /\ current = 0
    /\ line = 1
    /\ errors = <<>>
    /\ tokens = <<>>
    /\ result = <<"none">>
    /\ pc = "idle"

\* a token stream that ends in its only EndOfFile, handed to Parser::new
ParseInit ==
    /\ \E s \in SeqsUpTo(TokenAlphabet, MaxTokens) \cup ChainStreams \cup ExampleStreams :
          ptokens = Append(s, <<"EndOfFile">>)
    /\ parseOut = "none"
    /\ exprOut = <<"none">>
    /\ value = <<"none">>
    /\ ppc = "start"
    /\ ScanIdle

ParseNext ==
    \/ CallParse
    \/ CallExpression
    \/ CallInterpret

ParseSpec == ParseInit /\ [][ParseNext]_vars

(***************************************************************************)
(* interpret is public and takes any tree: the calls on trees a caller      *)
(* builds, among them those with a Unary of Bang or Minus, which            *)
(* Parser::unary never returns.                                             *)
(***************************************************************************)
Lit(tok) == <<"Literal", tok>>

\* operand expressions: a literal of every kind (two Numbers, two Strings),
\* a Grouping, 0 / 0 (NaN), 1 / 0 (infinity), -0 (negative zero), and -nil,
\* whose evaluation fails
OperandExprs ==
    {Lit(N(0)), Lit(N(1)), Lit(Str(<<>>)), Lit(Str(<<"1">>)), Lit(<<"True">>),
     Lit(<<"False">>), Lit(<<"Nil">>), <<"Grouping", Lit(<<"Nil">>)>>,
     <<"Binary", Lit(N(0)), <<"Slash">>, Lit(N(0))>>,
     <<"Binary", Lit(N(1)), <<"Slash">>, Lit(N(0))>>,
     <<"Unary", <<"Minus">>, Lit(N(0))>>,
     <<"Unary", <<"Minus">>, Lit(<<"Nil">>)>>}

\* the operators interpret has an arm for
UnaryOperators == {"Minus", "Bang"}
BinaryOperators ==
    {"Minus", "Slash", "Star", "Plus", "GreaterThan", "GreaterThanOrEqual",
     "LessThan", "LessThanOrEqual", "Equal", "NotEqual"}

\* one operator node over operand expressions
InterpTrees ==
    {<<"Unary", <<op>>, x>> : op \in UnaryOperators, x \in OperandExprs}
    \cup {<<"Binary", x, <<op>>, y>> : x \in OperandExprs, op \in BinaryOperators,
                                         y \in OperandExprs}

\* a tree built by the caller, about to be handed to interpret
InterpInit ==
    /\ ptokens = <<>>
    /\ parseOut = "none"
    /\ \E e \in OperandExprs \cup InterpTrees : exprOut = <<"ok", e, 0>>
    /\ value = <<"none">>
    /\ ppc = "parsed"
    /\ ScanIdle

InterpNext == CallInterpret

InterpSpec == InterpInit /\ [][InterpNext]_vars

\* any entry point: the scanner on bytes, the parser on a token stream, or
\* interpret on a tree
Init == ScanInit \/ ParseInit \/ InterpInit

Next == ScanNext \/ ParseNext

Spec == Init /\ [][Next]_vars

(***************************************************************************)
(* What the claims say of the scanner, as a reference lexer over the       *)
(* lexical grammar of the specification: every token with the line of its  *)
(* first byte, every error, and each byte belonging to exactly one token,  *)
(* comment, whitespace run or error.                                       *)
(***************************************************************************)
\* the first index j >= i at which the run of bytes of S that starts at i ends
RunEnd(src, i, S) ==
    CHOOSE j \in i..Len(src) :
        /\ \A k \in i..(j - 1) : At(src, k) \in S
        /\ j = Len(src) \/ At(src, j) \notin S

\* the number of newline bytes in src[a..b)
Newlines(src, a, b) == Cardinality({k \in a..(b - 1) : At(src, k) = "\n"})

\* the index of the first quote at or after i, Len(src) when there is none
QuoteAt(src, i) == RunEnd(src, i, AsciiBytes \ {"\""})

RefPrepend(tok, err, rest) ==
    [tokens |-> tok \o rest.tokens, errors |-> err \o rest.errors]

RECURSIVE RefLex(_, _, _)
RefLex(src, i, ln) ==
    IF i >= Len(src)
    THEN [tokens |-> <<Token(<<"EndOfFile">>, ln)>>, errors |-> <<>>]
    ELSE
    LET b == At(src, i)
        next == Get(src, i + 1)
    IN  CASE b \in {st[1] : st \in SingleTokens} ->
               LET st == CHOOSE x \in SingleTokens : x[1] = b
               IN  RefPrepend(<<Token(<<st[2]>>, ln)>>, <<>>, RefLex(src, i + 1, ln))
          [] b \in {ot[1] : ot \in OperatorTokens} ->
               LET ot == CHOOSE x \in OperatorTokens : x[1] = b
               IN  IF next = <<"=">>
                   THEN RefPrepend(<<Token(<<ot[2]>>, ln)>>, <<>>, RefLex(src, i + 2, ln))
                   ELSE RefPrepend(<<Token(<<ot[3]>>, ln)>>, <<>>, RefLex(src, i + 1, ln))
          [] b = "/" ->
               IF next = <<"/">>
               THEN RefLex(src, RunEnd(src, i + 2, AsciiBytes \ {"\n"}), ln)
               ELSE RefPrepend(<<Token(<<"Slash">>, ln)>>, <<>>, RefLex(src, i + 1, ln))
          [] b = "\"" ->
               LET close == QuoteAt(src, i + 1)
               IN  IF close >= Len(src)
                   THEN [tokens |-> <<Token(<<"EndOfFile">>, ln + Newlines(src, i, Len(src)))>>,
                         errors |-> <<<<"UnterimatedString", ln>>>>]
                   ELSE RefPrepend(<<Token(<<"String", Slice(src, i + 1, close)>>, ln)>>, <<>>,
                                   RefLex(src, close + 1, ln + Newlines(src, i, close)))
          [] b \in Digits ->
               LET j1 == RunEnd(src, i, Digits)
                   n2 == Get(src, j1 + 1)
                   j2 == IF Get(src, j1) = <<".">> /\ n2 # <<>> /\ n2[1] \in Digits
                         THEN RunEnd(src, j1 + 1, Digits) ELSE j1
               IN  RefPrepend(<<Token(<<"Number", ParseF64(Slice(src, i, j2))>>, ln)>>, <<>>,
                              RefLex(src, j2, ln))
          [] b \in Letters \cup {"_"} ->
               LET j == RunEnd(src, i, Letters \cup Digits \cup {"_"})
                   text == Slice(src, i, j)
                   hit == {kw \in KEYWORDS : kw[1] = text}
                   type == IF hit # {} THEN <<(CHOOSE kw \in hit : TRUE)[2]>>
                           ELSE <<"Identifier", text>>
               IN  RefPrepend(<<Token(type, ln)>>, <<>>, RefLex(src, j, ln))
          [] b \in {" ", "\r", "\t"} -> RefLex(src, i + 1, ln)
          [] b = "\n" -> RefLex(src, i + 1, ln + 1)
          [] OTHER ->
               RefPrepend(<<>>, <<<<"UnexpectedCharacter", b, ln>>>>, RefLex(src, i + 1, ln))

RefScan(src) == RefLex(src, 0, 1)

\* the errors of one kind, in order
ErrorsOf(kind, errs) == SelectSeq(errs, LAMBDA e : e[1] = kind)

\* the tokens of one kind, in order
TokensOf(kind, toks) == SelectSeq(toks, LAMBDA tk : tk.type[1] = kind)

\* scan_tokens has returned
ScanDone == pc = "done"

(***************************************************************************)
(* Claims about the scanner, checked under ScanSpec.                       *)
(***************************************************************************)
\* C2: scan_tokens is total: on every input the main loop ends without a
\* panic (every slice and index it takes is in bounds) and the call returns
\* Ok(tokens) or Err(ScanErrors).
C2_ScanTokensTotal ==
    /\ pc # "panic"
    /\ ScanDone => result[1] \in {"Ok", "Err"}

\* C7: the errors scan_tokens returns hold exactly one UnexpectedCharacter
\* for every unexpected byte outside string literals and line comments, in
\* source order, each with that byte and the line it is on.
C7_UnexpectedCharacters ==
    ScanDone =>
        ErrorsOf("UnexpectedCharacter", errors)
            = ErrorsOf("UnexpectedCharacter", RefScan(source).errors)

\* the token types of a token list, in order
TypesOf(toks) == [k \in DOMAIN toks |-> toks[k].type]

\* the input ends inside a string literal
EndsInString(src) == ErrorsOf("UnterimatedString", RefScan(src).errors) # <<>>

\* C8: when the input ends before the closing quote of a string literal that
\* opens on line L, scan_tokens returns Err with exactly one UnterminatedString
\* error, and that error carries line L.
C8_UnterminatedString ==
    EndsInString(source) =>
        /\ pc # "panic"
        /\ ScanDone =>
              /\ result[1] = "Err"
              /\ ErrorsOf("UnterimatedString", result[2])
                    = ErrorsOf("UnterimatedString", RefScan(source).errors)

\* C9: every string literal with both quotes gives exactly one String token
\* whose text is the bytes between the quotes, and no error is recorded for it
\* (the closing quote may be the last byte of the input, the body may be empty).
C9_StringLiterals ==
    ~EndsInString(source) =>
        /\ pc # "panic"
        /\ ScanDone =>
              /\ TypesOf(TokensOf("String", tokens))
                    = TypesOf(TokensOf("String", RefScan(source).tokens))
              /\ ErrorsOf("UnterimatedString", errors) = <<>>
              /\ ErrorsOf("Utf8", errors) = <<>>

\* C10: in every Ok result each token carries the line of its first byte (a
\* string literal that spans several lines the line of its opening quote),
\* and EndOfFile carries 1 + the number of newline bytes of the input.
C10_TokenLines ==
    (ScanDone /\ result[1] = "Ok") =>
        /\ TypesOf(result[2]) = TypesOf(RefScan(source).tokens) =>
              \A k \in DOMAIN result[2] :
                  result[2][k].line = RefScan(source).tokens[k].line
        /\ result[2][Len(result[2])].line = 1 + Newlines(source, 0, Len(source))

\* C11: every Ok result is the tokens scanned followed by one EndOfFile, its
\* only one (the empty input gives exactly EndOfFile at line 1); the result is
\* Ok exactly when no error was recorded, and an Err result holds the errors
\* recorded and none of the tokens.
C11_EndOfFileMarker ==
    ScanDone =>
        /\ result[1] = "Ok" <=> errors = <<>>
        /\ result[1] = "Ok" =>
              /\ result[2] # <<>>
              /\ result[2][Len(result[2])].type = <<"EndOfFile">>
              /\ Len(TokensOf("EndOfFile", result[2])) = 1
        /\ result[1] = "Err" => result[2] = errors /\ errors # <<>>
        /\ source = <<>> => result = <<"Ok", <<Token(<<"EndOfFile">>, 1)>>>>

\* C11's case: an Ok result of several tokens, with lines counted
C11_Witness ==
    /\ ScanDone
    /\ result[1] = "Ok"
    /\ Len(result[2]) >= 3
    /\ line >= 2

\* the tokens whose kind is in kinds, in order
KindsOf(kinds, toks) == SelectSeq(toks, LAMBDA tk : tk.type[1] \in kinds)

OperatorKinds ==
    {"NotEqual", "Bang", "Equal", "Assign", "LessThanOrEqual", "LessThan",
     "GreaterThanOrEqual", "GreaterThan"}

\* C12: outside strings and comments each '!', '=', '<', '>' followed by '='
\* gives the combined token for the two bytes, and otherwise (also as the last
\* byte) the one-character token: the operator tokens scanned are those of
\* the input, in order; '===' is Equal, Assign.
C12_TwoCharOperators ==
    ScanDone =>
        /\ TypesOf(KindsOf(OperatorKinds, tokens))
              = TypesOf(KindsOf(OperatorKinds, RefScan(source).tokens))
        /\ source = <<"=", "=", "=">> =>
              TypesOf(tokens) = <<<<"Equal">>, <<"Assign">>, <<"EndOfFile">>>>

\* the index at which a line comment that starts at byte 0 ends: that of the
\* next newline, Len(src) when there is none
CommentTail(src) == RunEnd(src, 2, AsciiBytes \ {"\n"})

\* the input starts with a line comment and has no string literal after it
CommentFirst(src) ==
    /\ Len(src) >= 2
    /\ src[1] = "/" /\ src[2] = "/"
    /\ \A k \in CommentTail(src)..(Len(src) - 1) : At(src, k) # "\""

\* C13: outside a string literal '//' and the bytes up to the next newline
\* (or the end of input) give no token and no error, whatever they are, and
\* the newline is still counted; a '/' not followed by '/' gives Slash.  The
\* Slash tokens scanned are those of the input, and an input that starts with
\* a comment scans as what follows the comment, from line 1.
C13_LineComments ==
    ScanDone =>
        /\ TypesOf(KindsOf({"Slash"}, tokens))
              = TypesOf(KindsOf({"Slash"}, RefScan(source).tokens))
        /\ CommentFirst(source) =>
              /\ tokens = RefLex(source, CommentTail(source), 1).tokens
              /\ errors = RefLex(source, CommentTail(source), 1).errors

\* C14: a number is the longest run of digits, then a '.' and the digits
\* after it only when a digit follows the '.'; its token carries the decimal
\* value of that text, and a '.' that is left is a Dot.  The Number and Dot
\* tokens scanned are those of the input; '123.' is Number(123), Dot and
\* '1.2.3' is Number(1.2), Dot, Number(3); a number that ends the input is
\* scanned without error.
C14_NumberLiterals ==
    ScanDone =>
        /\ TypesOf(KindsOf({"Number", "Dot"}, tokens))
              = TypesOf(KindsOf({"Number", "Dot"}, RefScan(source).tokens))
        /\ source = <<"1", "2", "3", ".">> =>
              result = <<"Ok", <<Token(<<"Number", Num(123)>>, 1), Token(<<"Dot">>, 1),
                                 Token(<<"EndOfFile">>, 1)>>>>
        /\ source = <<"1", ".", "2", ".", "3">> =>
              result = <<"Ok", <<Token(<<"Number", Fin(12, 10)>>, 1), Token(<<"Dot">>, 1),
                                 Token(<<"Number", Num(3)>>, 1), Token(<<"EndOfFile">>, 1)>>>>
        /\ (source # <<>> /\ \A k \in 1..Len(source) : source[k] \in Digits \cup {"."}) =>
              result[1] = "Ok"

\* the 16 reserved words' token kinds, and Identifier
WordKinds == {kw[2] : kw \in KEYWORDS} \cup {"Identifier"}

\* C15: an identifier or keyword is the longest run of letters, digits and
\* underscores that starts at a letter or underscore, and gives one token:
\* the keyword when the whole run is a reserved word, else Identifier with
\* the run's text.  The word tokens scanned are those of the input; 'orchid'
\* and 'nil_' are Identifiers, 'nil' is Nil.
C15_IdentifiersAndKeywords ==
    ScanDone =>
        /\ TypesOf(KindsOf(WordKinds, tokens))
              = TypesOf(KindsOf(WordKinds, RefScan(source).tokens))
        /\ Cardinality(KEYWORDS) = 16
        /\ source = <<"o", "r", "c", "h", "i", "d">> =>
              TypesOf(tokens) = <<<<"Identifier", source>>, <<"EndOfFile">>>>
        /\ source = <<"n", "i", "l", "_">> =>
              TypesOf(tokens) = <<<<"Identifier", source>>, <<"EndOfFile">>>>
        /\ source = <<"n", "i", "l">> => TypesOf(tokens) = <<<<"Nil">>, <<"EndOfFile">>>>
        /\ source = <<"o", "r">> => TypesOf(tokens) = <<<<"Or">>, <<"EndOfFile">>>>

\* the index of the byte immediately after the token, comment, whitespace
\* byte or unexpected byte that starts at byte i
ItemEnd(src, i) ==
    LET b == At(src, i)
        next == Get(src, i + 1)
    IN  CASE b \in {ot[1] : ot \in OperatorTokens} -> IF next = <<"=">> THEN i + 2 ELSE i + 1
          [] b = "/" ->
               IF next = <<"/">> THEN RunEnd(src, i + 2, AsciiBytes \ {"\n"}) ELSE i + 1
          [] b = "\"" ->
               LET close == QuoteAt(src, i + 1)
               IN  IF close >= Len(src) THEN Len(src) ELSE close + 1
          [] b \in Digits ->
               LET j1 == RunEnd(src, i, Digits)
                   n2 == Get(src, j1 + 1)
               IN  IF Get(src, j1) = <<".">> /\ n2 # <<>> /\ n2[1] \in Digits
                   THEN RunEnd(src, j1 + 1, Digits) ELSE j1
          [] b \in Letters \cup {"_"} -> RunEnd(src, i, Letters \cup Digits \cup {"_"})
          [] OTHER -> i + 1

\* C20: no byte is dropped.  At the top of every iteration of the main loop
\* start equals current, and an iteration leaves the cursor on the byte
\* immediately after the token, comment, whitespace byte or error it handled,
\* so the next iteration starts there.
C20_NoByteDropped ==
    [][(pc = "scan" /\ pc' = "scan") =>
          /\ start = current
          /\ start' = current'
          /\ current' = ItemEnd(source, current)]_vars

(***************************************************************************)
(* What the claims say of the parser: the grammar of the specification as  *)
(* a recognizer, and the shape of a tree.                                  *)
(*   expression -> equality ... factor -> unary ( ("*" | "/") unary )*     *)
(*   unary -> ("!" | "-") unary | primary                                  *)
(*   primary -> NUMBER | STRING | "true" | "false" | "nil"                 *)
(*            | "(" expression ")"                                         *)
(***************************************************************************)
\* the grammar level of a binary operator: equality 1 ... factor 4
Level(op) ==
    CASE op \in {"NotEqual", "Equal"} -> 1
      [] op \in {"GreaterThan", "GreaterThanOrEqual", "LessThan", "LessThanOrEqual"} -> 2
      [] op \in {"Minus", "Plus"} -> 3
      [] op \in {"Slash", "Star"} -> 4
      [] OTHER -> 0

PrefixOps == {"Bang", "Minus"}

\* the index after the longest phrase of the given level that starts at i,
\* -1 when there is none (levels 1..4 are the binary ones, 5 is unary)
RECURSIVE RefParse(_, _, _)
RECURSIVE RefLoop(_, _, _)
RefLoop(lv, toks, j) ==
    IF j = -1 THEN -1
    ELSE IF j < Len(toks) /\ Level(At(toks, j)[1]) = lv
    THEN RefLoop(lv, toks, RefParse(lv + 1, toks, j + 1))
    ELSE j

RefParse(lv, toks, i) ==
    IF i >= Len(toks) THEN -1
    ELSE IF lv <= 4 THEN RefLoop(lv, toks, RefParse(lv + 1, toks, i))
    ELSE IF At(toks, i)[1] \in PrefixOps THEN RefParse(5, toks, i + 1)
    ELSE IF At(toks, i)[1] \in LiteralTypes THEN i + 1
    ELSE IF At(toks, i)[1] = "LeftBracket"
    THEN LET j == RefParse(1, toks, i + 1)
         IN  IF j # -1 /\ j < Len(toks) /\ At(toks, j) = <<"RightBracket">>
             THEN j + 1 ELSE -1
    ELSE -1

\* the stream is an expression of the grammar followed by EndOfFile
Derivable(toks) == RefParse(1, toks, 0) = Len(toks) - 1

\* no expression of the grammar starts the stream
NoExpression(toks) == RefParse(1, toks, 0) = -1

\* the tokens of a tree, in source order
RECURSIVE Yield(_)
Yield(e) ==
    CASE e[1] = "Literal" -> <<e[2]>>
      [] e[1] = "Grouping" -> <<<<"LeftBracket">>>> \o Yield(e[2]) \o <<<<"RightBracket">>>>
      [] e[1] = "Unary" -> <<e[2]>> \o Yield(e[3])
      [] e[1] = "Binary" -> Yield(e[2]) \o <<e[3]>> \o Yield(e[4])

\* how tightly the root of a tree binds: a Binary its operator's level, a
\* Unary 5, a Literal or a Grouping 6
Rank(e) ==
    CASE e[1] = "Binary" -> Level(e[3][1])
      [] e[1] = "Unary" -> 5
      [] OTHER -> 6

\* every operand that is not in parentheses binds at least as tightly as the
\* operator it belongs to
RECURSIVE HigherBelow(_)
HigherBelow(e) ==
    CASE e[1] = "Literal" -> TRUE
      [] e[1] = "Grouping" -> HigherBelow(e[2])
      [] e[1] = "Unary" -> Rank(e[3]) >= 5 /\ HigherBelow(e[3])
      [] e[1] = "Binary" ->
           /\ Rank(e[2]) >= Rank(e) /\ Rank(e[4]) >= Rank(e)
           /\ HigherBelow(e[2]) /\ HigherBelow(e[4])

\* the stream is x1 op1 x2 ... opn x(n+1) EndOfFile, n >= 1, the x literals
\* and the op binary operators
IsChain(toks) ==
    /\ Len(toks) >= 4 /\ Len(toks) % 2 = 0
    /\ \A k \in 1..(Len(toks) - 1) :
          IF k % 2 = 1 THEN toks[k][1] \in LiteralTypes ELSE Level(toks[k][1]) > 0

\* a chain whose operators all belong to one level
SameLevelChain(toks) ==
    /\ IsChain(toks)
    /\ \A k \in 1..(Len(toks) - 1) : k % 2 = 0 => Level(toks[k][1]) = Level(toks[2][1])

\* Binary(...Binary(Binary(x1, op1, x2), op2, x3)..., opn, x(n+1)) of a chain
RECURSIVE LeftFold(_, _)
LeftFold(toks, n) ==
    IF n = 0 THEN <<"Literal", toks[1]>>
    ELSE <<"Binary", LeftFold(toks, n - 1), toks[2 * n], <<"Literal", toks[2 * n + 1]>>>>

\* the stream is n >= 1 prefix operators, a literal and EndOfFile
PrefixForm(toks) ==
    /\ Len(toks) >= 3
    /\ \A k \in 1..(Len(toks) - 2) : toks[k][1] \in PrefixOps
    /\ toks[Len(toks) - 1][1] \in LiteralTypes

\* Unary(op1, Unary(op2, ... Literal)) of a stream of that form, from token k
RECURSIVE NestedUnary(_, _)
NestedUnary(toks, k) ==
    IF toks[k][1] \in PrefixOps THEN <<"Unary", toks[k], NestedUnary(toks, k + 1)>>
    ELSE <<"Literal", toks[k]>>

\* Parser::expression has returned
Parsed == ppc \in {"parsed", "done"}

\* the stream is the example s of the specification, interpreted
Interpreted(s) == ppc = "done" /\ ptokens = Append(s, <<"EndOfFile">>)

(***************************************************************************)
(* Claims about the parser and the interpreter, checked under ParseSpec.   *)
(***************************************************************************)
\* C1: on every EndOfFile-terminated stream derivable from the grammar,
\* expression followed by interpret yields Ok(Value) or Err(Error::Type):
\* never a ParseError, never a panic.
C1_ValidStreamsEvaluate ==
    Derivable(ptokens) =>
        /\ Parsed => exprOut[1] = "ok"
        /\ ppc = "done" => value[1] \in {"ok", "err"}

\* C3: on every stream that ends in its only EndOfFile, parse and expression
\* return a result or a ParseError and never panic; a stream that starts no
\* expression (a '(' expression not followed by ')', a first token that
\* cannot start a primary) gives Err(ParseError).
C3_ParseErrorsAsData ==
    /\ parseOut # "panic"
    /\ exprOut[1] # "panic"
    /\ (Parsed /\ NoExpression(ptokens)) => exprOut = <<"err">>

\* C4: unary takes exactly the prefix operators Bang and Minus: n of them
\* before a literal give n nested Unary nodes, the last written innermost;
\* on any other token unary is primary.
C4_UnaryPrefixOperators ==
    Parsed =>
        /\ PrefixForm(ptokens) =>
              exprOut = <<"ok", NestedUnary(ptokens, 1), Len(ptokens) - 1>>
        /\ ptokens[1][1] \notin PrefixOps => unary(ptokens, 0) = primary(ptokens, 0)

\* C5: in the tree expression returns, an operator of a higher level is an
\* operand of the operator of a lower level it meets, whichever comes first,
\* and a parenthesised expression is one Grouping operand: the tree spells
\* the tokens consumed, no operand outside parentheses binds less tightly
\* than its operator, and a chain of literals and binary operators is
\* consumed whole; 2 + 3 * 4 is 14 and (2 + 3) * 4 is 20.
C5_Precedence ==
    /\ (Parsed /\ exprOut[1] = "ok") =>
          /\ Yield(exprOut[2]) = SubSeq(ptokens, 1, exprOut[3])
          /\ HigherBelow(exprOut[2])
    /\ (Parsed /\ IsChain(ptokens)) =>
          exprOut[1] = "ok" /\ exprOut[3] = Len(ptokens) - 1
    /\ Interpreted(<<N(2), <<"Plus">>, N(3), <<"Star">>, N(4)>>) =>
          value = <<"ok", N(14)>>
    /\ Interpreted(<<<<"LeftBracket">>, N(2), <<"Plus">>, N(3), <<"RightBracket">>,
                     <<"Star">>, N(4)>>) =>
          value = <<"ok", N(20)>>

\* C5's case: a tree whose lower-level operator has the higher-level one as
\* its right operand and one where it is the left operand, both evaluated
C5_Witness ==
    /\ ppc = "done"
    /\ value[1] = "ok"
    /\ exprOut[2][1] = "Binary"
    /\ \/ exprOut[2][4][1] = "Binary" /\ Rank(exprOut[2][4]) > Rank(exprOut[2])
       \/ exprOut[2][2][1] = "Binary" /\ Rank(exprOut[2][2]) > Rank(exprOut[2])

\* C6: a chain of operators of one level parses to the left-nested tree with
\* the operators in source order; 8 - 4 - 2 is 2.
C6_LeftAssociative ==
    /\ (Parsed /\ SameLevelChain(ptokens)) =>
          exprOut = <<"ok", LeftFold(ptokens, (Len(ptokens) - 2) \div 2), Len(ptokens) - 1>>
    /\ Interpreted(<<N(8), <<"Minus">>, N(4), <<"Minus">>, N(2)>>) => value = <<"ok", N(2)>>

\* C6's case: a chain of two or more operators of one level, parsed and evaluated
C6_Witness ==
    /\ ppc = "done"
    /\ SameLevelChain(ptokens)
    /\ Len(ptokens) >= 6
    /\ ptokens[2] # ptokens[4]
    /\ value[1] = "ok"

(***************************************************************************)
(* What the claims say of interpret, checked under InterpSpec: the value   *)
(* of each operand expression, written out, and the outcome each operator  *)
(* is to have on operand values.                                           *)
(***************************************************************************)
\* the value an operand expression evaluates to, <<"none">> when it fails
ValueOf(x) ==
    CASE x = <<"Binary", Lit(N(0)), <<"Slash">>, Lit(N(0))>> -> <<"Number", NaN>>
      [] x = <<"Binary", Lit(N(1)), <<"Slash">>, Lit(N(0))>> -> <<"Number", PInf>>
      [] x = <<"Unary", <<"Minus">>, Lit(N(0))>> -> <<"Number", NZero>>
      [] x = <<"Unary", <<"Minus">>, Lit(<<"Nil">>)>> -> <<"none">>
      [] x = <<"Grouping", Lit(<<"Nil">>)>> -> <<"Nil">>
      [] x = Lit(<<"Nil">>) -> <<"Nil">>
      [] x = Lit(<<"True">>) -> <<"Bool", TRUE>>
      [] x = Lit(<<"False">>) -> <<"Bool", FALSE>>
      [] OTHER -> x[2]

\* interpret has returned on a Unary / Binary node whose operands evaluate
UnaryDone(ops) ==
    /\ ppc = "done"
    /\ exprOut[2][1] = "Unary"
    /\ exprOut[2][2][1] \in ops
    /\ ValueOf(exprOut[2][3]) # <<"none">>

BinaryDone(ops) ==
    /\ ppc = "done"
    /\ exprOut[2][1] = "Binary"
    /\ exprOut[2][3][1] \in ops
    /\ ValueOf(exprOut[2][2]) # <<"none">>
    /\ ValueOf(exprOut[2][4]) # <<"none">>

\* the kinds of the operand values of the node
LeftKind == ValueOf(exprOut[2][2])[1]
RightKind == ValueOf(exprOut[2][4])[1]

ArithmeticOperators == {"Minus", "Star", "Slash"}
OrderingOperators == {"GreaterThan", "GreaterThanOrEqual", "LessThan", "LessThanOrEqual"}

\* the value of interpret is Ok of the given kind
OkOfKind(kind) == value[1] = "ok" /\ value[2][1] = kind

\* C16: with operands that evaluate, interpret is Err(Error::Type) exactly
\* for unary '-' on a non-Number, for '-', '*', '/', '>', '>=', '<', '<=' with
\* a non-Number operand, and for '+' unless both operands are Numbers (the
\* sum) or both Strings (left text then right text); otherwise it is Ok, a
\* Number for arithmetic, a String for concatenation, a Bool for comparisons.
C16_OperandTyping ==
    /\ UnaryDone({"Minus"}) =>
          IF ValueOf(exprOut[2][3])[1] = "Number" THEN OkOfKind("Number") ELSE value = <<"err">>
    /\ UnaryDone({"Bang"}) => OkOfKind("Bool")
    /\ BinaryDone(ArithmeticOperators) =>
          IF LeftKind = "Number" /\ RightKind = "Number"
          THEN OkOfKind("Number") ELSE value = <<"err">>
    /\ BinaryDone(OrderingOperators) =>
          IF LeftKind = "Number" /\ RightKind = "Number"
          THEN OkOfKind("Bool") ELSE value = <<"err">>
    /\ BinaryDone({"Plus"}) =>
          IF LeftKind = "Number" /\ RightKind = "Number" THEN OkOfKind("Number")
          ELSE IF LeftKind = "String" /\ RightKind = "String"
          THEN value = <<"ok", <<"String", ValueOf(exprOut[2][2])[2] \o ValueOf(exprOut[2][4])[2]>>>>
          ELSE value = <<"err">>
    /\ BinaryDone({"Equal", "NotEqual"}) => OkOfKind("Bool")
    /\ (ppc = "done" /\ exprOut[2] = <<"Binary", Lit(N(1)), <<"Plus">>, Lit(N(1))>>) =>
          value = <<"ok", N(2)>>

\* C16's case: a Number and a String under '+', evaluated
C16_Witness ==
    /\ BinaryDone({"Plus"})
    /\ LeftKind = "Number"
    /\ RightKind = "String"
    /\ value = <<"err">>

\* the operand values of the Binary node interpret returned on
LeftValue == ValueOf(exprOut[2][2])
RightValue == ValueOf(exprOut[2][4])

\* the node with its operands exchanged, and with '==' for its operator
Swapped == <<"Binary", exprOut[2][4], exprOut[2][3], exprOut[2][2]>>
AsEqual == <<"Binary", exprOut[2][2], <<"Equal">>, exprOut[2][4]>>

\* IEEE-754 equality: NaN equals nothing, itself included, and the two zeros
\* are equal
IeeeEqual(x, y) ==
    /\ x # NaN
    /\ y # NaN
    /\ x = y \/ {x, y} = {Num(0), NZero}

\* the same kind and an equal payload, Numbers by IEEE-754 equality
SameValue(a, b) ==
    /\ a[1] = b[1]
    /\ IF a[1] = "Number" THEN IeeeEqual(a[2], b[2]) ELSE a = b

\* the relations between '==', '!=' and the exchange of the operands
EqualityRelations ==
    /\ BinaryDone({"Equal", "NotEqual"}) => value = interpret(Swapped)
    /\ BinaryDone({"NotEqual"}) =>
          value = <<"ok", <<"Bool", ~interpret(AsEqual)[2][2]>>>>

\* C17 as stated: '==' never fails and is Bool(true) exactly when the two
\* operand values have the same kind and the same payload, Bool(false) for
\* different kinds; '!=' is its negation; '==' is symmetric.
C17_EqualityAsStated ==
    /\ BinaryDone({"Equal"}) => value = <<"ok", <<"Bool", LeftValue = RightValue>>>>
    /\ BinaryDone({"NotEqual"}) => value = <<"ok", <<"Bool", LeftValue # RightValue>>>>
    /\ EqualityRelations

\* C17, amended: '==' never fails and is Bool(true) exactly when the two
\* operand values have the same kind and equal payloads, where two Numbers
\* are equal by IEEE-754 equality (NaN is unequal to every Number, itself
\* included, and 0 equals -0); Bool(false) for different kinds; '!=' is its
\* negation; '==' is symmetric.
C17_Equality ==
    /\ BinaryDone({"Equal"}) =>
          value = <<"ok", <<"Bool", SameValue(LeftValue, RightValue)>>>>
    /\ BinaryDone({"NotEqual"}) =>
          value = <<"ok", <<"Bool", ~SameValue(LeftValue, RightValue)>>>>
    /\ EqualityRelations

\* C17's case: NaN compared with NaN, which are not equal
C17_Witness ==
    /\ BinaryDone({"Equal"})
    /\ LeftValue = <<"Number", NaN>>
    /\ RightValue = <<"Number", NaN>>
    /\ value = <<"ok", <<"Bool", FALSE>>>>

\* C18: on Unary('!', operand) whose operand evaluates to v, interpret
\* always succeeds: Bool(true) exactly when v is Nil or Bool(false), and
\* Bool(false) for every other value, Number(0) and the empty String
\* included; never a TypeError.
C18_LogicalNegation ==
    UnaryDone({"Bang"}) =>
        value = <<"ok", <<"Bool", ValueOf(exprOut[2][3]) \in {<<"Nil">>, <<"Bool", FALSE>>}>>>>

\* C18's case: Number(0) or the empty String negated, which is Bool(false)
C18_Witness ==
    /\ UnaryDone({"Bang"})
    /\ ValueOf(exprOut[2][3]) \in {<<"Number", Num(0)>>, <<"String", <<>>>>}
    /\ value = <<"ok", <<"Bool", FALSE>>>>

(***************************************************************************)
(* The trees the parser hands to the evaluator, checked under ParseSpec.   *)
(***************************************************************************)
\* every node of the tree is one interpret has an arm for
RECURSIVE Handled(_)
Handled(e) ==
    CASE e[1] = "Literal" -> e[2][1] \in {"Number", "String", "True", "False", "Nil"}
      [] e[1] = "Grouping" -> Handled(e[2])
      [] e[1] = "Unary" -> e[2][1] \in {"Bang", "Minus"} /\ Handled(e[3])
      [] e[1] = "Binary" ->
           /\ e[3][1] \in {"Minus", "Plus", "Star", "Slash", "GreaterThan",
                            "GreaterThanOrEqual", "LessThan", "LessThanOrEqual",
                            "Equal", "NotEqual"}
           /\ Handled(e[2])
           /\ Handled(e[4])
      [] OTHER -> FALSE

\* C19: every tree expression returns holds only nodes the evaluator
\* handles (a Literal of Number, String, True, False or Nil; a Grouping; a
\* Unary of Bang or Minus; a Binary of one of the ten binary operators), so
\* interpret never reaches an unreachable!() arm on it.
C19_ParserTreesHandled ==
    /\ (Parsed /\ exprOut[1] = "ok") => Handled(exprOut[2])
    /\ ppc = "done" => value[1] # "panic"

====
